---- MODULE Spec2Model ----
(***************************************************************************)
(* A model of unlicense/emulation.py: one call of resolve_wrapped_api, the *)
(* emulation session it builds, and the two callbacks                      *)
(* (_unicorn_hook_unmapped, _unicorn_hook_block) that the emulation engine *)
(* invokes while the wrapper runs.                                         *)
(*                                                                         *)
(* The engine and the wrapper's instructions are the environment: the      *)
(* engine delivers blocks and faults, the wrapper moves the stack pointer, *)
(* stores to the stack, sets the result register and jumps.                *)
(*                                                                         *)
(* Addresses.  TLC's integers are 32-bit signed, so the address space is   *)
(* narrowed: the 32-bit profile has 24-bit addresses and the 64-bit        *)
(* profile 28-bit addresses, a page is 256 or 512 bytes, and every address *)
(* constant of the source keeps its leading hexadecimal digits             *)
(* (0xdeadbeef -> 0xDEADBE, 0xff000000 -> 0xFF0000, 0xff00000000000000 ->  *)
(* 0xFF00000).  Pointer sizes (4 and 8), structure offsets and the 1024    *)
(* byte window are the source's.  Registers keep their (narrowed) width:   *)
(* a register write is taken modulo the size of the address space.         *)
(***************************************************************************)
EXTENDS Integers, FiniteSets, Sequences, TLC

\* Python's None where an address is expected, and the outcome of a stack read
\* that raised
None == 0 - 1
Unmapped == 0 - 2
\* no phase, no exception
Nothing == "none"
\* no block-hook call, no fault-hook call, no export reached yet
NoHook == [address |-> None, sp |-> None, ret |-> None, branch |-> Nothing]
NoFault == [address |-> None, mappedBefore |-> {}, readLive |-> FALSE,
            engineOk |-> FALSE, result |-> FALSE]
NoExport == [address |-> None, ret |-> None]
\* no second call
NoCall == [phase |-> Nothing]

\* ---------------------------------------------------------------- bounds
\* Block-hook invocations counted in one run: the counter stops there, the run
\* does not.
MaxBlocks == 2

\* ------------------------------------------------------ program constants
X86_32 == "X86_32"
X86_64 == "X86_64"
OtherArch == "ARM64"

\* 0xdeadbeef, narrowed to 0xDEADBE
STACK_MAGIC_RET_ADDR == 14593470

NO_RETURN_APIS == {"ExitProcess", "FatalExit", "ExitThread"}
BOGUS_APIS == {"Sleep"}
\* api name -> <<result, arg_count>>
BOGUS_API_MAP == [n \in {"Sleep"} |-> <<0, 1>>]

\* emu_start(wrapper_start_addr, wrapper_start_addr + 1024)
EmuWindow == 1024

\* Architecture profile: size of the address space (register width)
AddrSpace(a) == IF a = X86_32 THEN 16777216 ELSE 268435456
\* stack_addr: 0xff000000 / 0xff00000000000000, narrowed
stack_addr(a) == IF a = X86_32 THEN 16711680 ELSE 267386880
\* teb_addr, peb_addr of _setup_teb_x86 / _setup_teb_x64, narrowed
teb_addr(a) == IF a = X86_32 THEN 16715776 ELSE 267452416
peb_addr(a) == IF a = X86_32 THEN 16719872 ELSE 267517952
\* offsets of the self pointer and of the PEB pointer inside the TEB
teb_self_off(a) == IF a = X86_32 THEN 24 ELSE 48
teb_peb_off(a) == IF a = X86_32 THEN 48 ELSE 96
seg_msr(a) == IF a = X86_32 THEN "IA32_FS_BASE" ELSE "IA32_GS_BASE"

\* ------------------------------------------------- the process controller
\* process_controller.architecture
Architectures == {X86_32, X86_64, OtherArch}
\* process_controller.page_size
PageSizes == {256, 512}
\* process_controller.pointer_size
PointerSize(a) == IF a = X86_32 THEN 4 ELSE 8

\* process_controller.enumerate_exported_functions(): address -> name
exports_dict == (7667728 :> "Sleep") @@ (7667744 :> "ExitProcess") @@ (7667760 :> "CreateFileA")
ExportAddrs == DOMAIN exports_dict

\* A wrapper stub of the protected program (0x401000) and the return address
\* of the wrapped call's site (0x401005)
WrapperStub == {4198400}
CallSiteRet == {4198405}
\* Pages process_controller.read_process_memory can read, by base address: the
\* 512 bytes of the stub's section and the 512 bytes of the exports' section,
\* as pages of the reported size.  Any other page raises ReadProcessMemoryError.
ReadablePages(ps) == {p \in {4198400, 4198656, 7667712, 7667968} : p % ps = 0}
\* The pages the live process writes while the call runs: its own image
LiveWritable == {4198400}
\* The bytes of a page, as a token
Blob == {170, 187}
\* An address outside every readable mapping of the live process
OutOfRange == {9437184}

\* ------------------------------------------------------------- the state
VARIABLES
    \* the request and the process controller's answers
    arch, page_size, wrapper_start_addr, expected_ret_addr, live,
    \* resolve_wrapped_api: position, result, exception, locals
    phase, retval, exc, stop_on_ret_addr, hooks,
    \* the emulator (uc): registers, mapped pages, memory, run state
    reg_pc, reg_sp, reg_bp, reg_result, seg_base, mapped, uc_mem, emu,
    \* history: the block counter, the phase an engine call failed in, the inputs of the
    \* last callback, the first export reached, and per page the number of
    \* successful mem_map calls and the live bytes at the time it was mirrored
    nblocks, failedAt, hookIn, faultIn, firstExport, mapCount, snap,
    \* a second call of resolve_wrapped_api on another thread: which of the two
    \* calls is running (the variables above are its state), the state of the
    \* suspended one, and whether callbacks of the two calls have interleaved
    cur, other, mixed

vars == <<arch, page_size, wrapper_start_addr, expected_ret_addr, live,
          phase, retval, exc, stop_on_ret_addr, hooks,
          reg_pc, reg_sp, reg_bp, reg_result, seg_base, mapped, uc_mem, emu,
          nblocks, failedAt, hookIn, faultIn, firstExport, mapCount, snap,
          cur, other, mixed>>

request == <<arch, page_size, wrapper_start_addr, expected_ret_addr>>
threads == <<cur, other, mixed>>
regs == <<reg_pc, reg_sp, reg_bp, reg_result, seg_base>>
memory == <<mapped, uc_mem, mapCount, snap>>
history == <<nblocks, failedAt, hookIn, faultIn, firstExport>>

pointer_size == PointerSize(arch)

\* ---------------------------------------------------- engine primitives
RECURSIVE BitAnd(_, _)
\* a & b on naturals
BitAnd(a, b) ==
    IF a = 0 \/ b = 0 THEN 0
    ELSE (a % 2) * (b % 2) + 2 * BitAnd(a \div 2, b \div 2)

\* The pages [addr, addr + size) covers, by base address
PagesOf(addr, size) == {addr + k * page_size : k \in 0 .. ((size \div page_size) - 1)}

\* Is this address inside a mapped page
IsMapped(a) == \E b \in mapped : b <= a /\ a < b + page_size

\* uc.mem_map raises UcError (UC_ERR_MAP) when the range overlaps a mapping
MemMapOverlaps(addr, size) == \E p \in PagesOf(addr, size) : p \in mapped

\* uc.mem_read / uc.mem_write of n bytes raise UcError on an unmapped byte
CanAccess(a, n) == IsMapped(a) /\ IsMapped(a + n - 1)

\* uc.mem_read of a pointer: mapped memory is zero until written
MemRead(a) == IF a \in DOMAIN uc_mem THEN uc_mem[a] ELSE 0

\* uc.reg_write of an address-sized register keeps the register's width
RegValue(v) == v % AddrSpace(arch)

\* ------------------------------------------------------ resolve_wrapped_api
stack_size == 3 * page_size
\* Faulty variant: the top of the stack placed at the end of the mapping
stack_start_End == stack_addr(arch) + stack_size
\* line 55
stack_start == stack_addr(arch) + stack_size - page_size
magic_page == STACK_MAGIC_RET_ADDR - (STACK_MAGIC_RET_ADDR % page_size)
Until == wrapper_start_addr + EmuWindow

\* One call of resolve_wrapped_api at its entry
InitCall ==
    /\ arch \in Architectures
    /\ page_size \in PageSizes
    /\ wrapper_start_addr \in WrapperStub \cup ExportAddrs
    /\ expected_ret_addr \in {None} \cup CallSiteRet
    /\ live \in [ReadablePages(page_size) -> {170}]
    /\ phase = "select_arch"
    /\ retval = None /\ exc = Nothing /\ stop_on_ret_addr = None /\ hooks = {}
    /\ reg_pc = 0 /\ reg_sp = 0 /\ reg_bp = 0 /\ reg_result = 0
    /\ seg_base = <<Nothing, 0>>
    /\ mapped = {} /\ uc_mem = <<>> /\ emu = "idle"
    /\ nblocks = 0 /\ failedAt = Nothing
    /\ hookIn = NoHook /\ faultIn = NoFault /\ firstExport = NoExport
    /\ mapCount = <<>> /\ snap = <<>>

Init == InitCall /\ cur = 1 /\ other = NoCall /\ mixed = FALSE

\* Faulty variant: an unknown architecture falls back to a default profile
HasProfile_Default(a) == TRUE

\* lines 25, 34, 43: the architectures the if / elif chain has a branch for
HasProfile(a) == a \in {X86_32, X86_64}

\* lines 24-44: choose the profile, or raise NotImplementedError
SelectArch ==
    /\ phase = "select_arch"
    /\ IF HasProfile(arch)
       THEN phase' = "uc_new" /\ exc' = exc
       ELSE phase' = "raised" /\ exc' = "NotImplementedError"
    /\ UNCHANGED <<threads, request, live, retval, stop_on_ret_addr, hooks, regs, memory,
                   emu, history>>

\* line 46: uc = Uc(uc_arch, uc_mode), before the try block
UcNew ==
    /\ phase = "uc_new"
    /\ \/ phase' = "map_magic" /\ exc' = exc
       \/ phase' = "raised" /\ exc' = "UcError"
    /\ UNCHANGED <<threads, request, live, retval, stop_on_ret_addr, hooks, regs, memory,
                   emu, history>>

\* Counting a successful uc.mem_map of these pages
Counted(pages) ==
    [p \in DOMAIN mapCount \cup pages |->
        (IF p \in DOMAIN mapCount THEN mapCount[p] ELSE 0) + (IF p \in pages THEN 1 ELSE 0)]

\* lines 48-51: map the page of the fake return address
MapMagicPage ==
    /\ phase = "map_magic" /\ emu = "idle"
    /\ ~MemMapOverlaps(magic_page, page_size)
    /\ mapped' = mapped \cup PagesOf(magic_page, page_size)
    /\ mapCount' = Counted(PagesOf(magic_page, page_size))
    /\ phase' = "setup_stack"
    /\ UNCHANGED <<threads, request, live, retval, exc, stop_on_ret_addr, hooks, regs, uc_mem,
                   snap, emu, history>>

\* The value line 57-60 writes at the top of the synthetic stack
InitialReturnAddress == STACK_MAGIC_RET_ADDR

\* lines 53-62: map the stack, write the fake return address, set sp and bp
SetupStack ==
    /\ phase = "setup_stack" /\ emu = "idle"
    /\ ~MemMapOverlaps(stack_addr(arch), stack_size)
    /\ mapped' = mapped \cup PagesOf(stack_addr(arch), stack_size)
    /\ mapCount' = Counted(PagesOf(stack_addr(arch), stack_size))
    /\ uc_mem' = (stack_start :> InitialReturnAddress) @@ uc_mem
    /\ reg_sp' = RegValue(stack_start)
    /\ reg_bp' = RegValue(stack_start)
    /\ phase' = "setup_teb"
    /\ UNCHANGED <<threads, request, live, retval, exc, stop_on_ret_addr, hooks, reg_pc,
                   reg_result, seg_base, snap, emu, history>>

\* lines 64-65, 100-125: _setup_teb_x86 / _setup_teb_x64
SetupTeb ==
    /\ phase = "setup_teb" /\ emu = "idle"
    /\ ~MemMapOverlaps(teb_addr(arch), page_size)
    /\ ~MemMapOverlaps(peb_addr(arch), page_size)
    /\ mapped' = mapped \cup PagesOf(teb_addr(arch), page_size)
                        \cup PagesOf(peb_addr(arch), page_size)
    /\ mapCount' = Counted(PagesOf(teb_addr(arch), page_size)
                           \cup PagesOf(peb_addr(arch), page_size))
    /\ uc_mem' = ((teb_addr(arch) + teb_self_off(arch)) :> teb_addr(arch))
                 @@ ((teb_addr(arch) + teb_peb_off(arch)) :> peb_addr(arch))
                 @@ uc_mem
    /\ seg_base' = <<seg_msr(arch), teb_addr(arch)>>
    /\ phase' = "add_hooks"
    /\ UNCHANGED <<threads, request, live, retval, exc, stop_on_ret_addr, hooks, reg_pc,
                   reg_sp, reg_bp, reg_result, snap, emu, history>>

\* lines 67-77: choose the stop address and install both hooks
AddHooks ==
    /\ phase = "add_hooks" /\ emu = "idle"
    /\ stop_on_ret_addr' = IF expected_ret_addr = None THEN STACK_MAGIC_RET_ADDR
                           ELSE expected_ret_addr
    /\ hooks' = {"UC_HOOK_MEM_UNMAPPED", "UC_HOOK_BLOCK"}
    /\ phase' = "emu_start"
    /\ UNCHANGED <<threads, request, live, retval, exc, regs, memory, emu, history>>

\* line 79: uc.emu_start(wrapper_start_addr, wrapper_start_addr + 1024)
EmuStart ==
    /\ phase = "emu_start" /\ emu = "idle"
    /\ phase' = "running"
    /\ emu' = "fetch"
    /\ reg_pc' = RegValue(wrapper_start_addr)
    /\ UNCHANGED <<threads, request, live, retval, exc, stop_on_ret_addr, hooks, reg_sp,
                   reg_bp, reg_result, seg_base, memory, history>>

\* ------------------------------------------------- _unicorn_hook_unmapped
\* Faulty variant: the address itself is taken as the page's base
AlignedAddr_Unaligned(address) == address

\* line 136: aligned_addr = address - (address & (page_size - 1))
AlignedAddr(address) == address - BitAnd(address, page_size - 1)

\* Faulty variant: the null address is looked up in the live process like any other
ReadsLive_Always(address) == TRUE

\* lines 132-133: the callback returns False for the null address before it
\* calls read_process_memory
ReadsLive(address) == address # 0

WritesPage_WheneverRead(read_ok, map_ok) == read_ok

\* lines 137-141: uc.mem_write runs only after read_process_memory and
\* uc.mem_map have both returned without raising
WritesPage(read_ok, map_ok) == read_ok /\ map_ok

\* Faulty variant: the expected read error is reported as a resolved fault
HookUnmappedResult_ReadErrorResolved(read_ok, map_ok) == map_ok \/ ~read_ok

\* lines 144-155: the callback returns True only after the page was read,
\* mapped and written; every except clause returns False
HookUnmappedResult(read_ok, map_ok) == read_ok /\ map_ok

\* lines 128-155, the whole callback, invoked for `address`.  engine_ok: uc.mem_map
\* does not fail for a reason of the engine's own (it is called, and recorded as
\* having failed, only after the read succeeded).  Returning False makes the
\* engine abort the run with UcError.
HookUnmapped(address, engine_ok) ==
    LET aligned_addr == AlignedAddr(address)
        read_ok == ReadsLive(address) /\ aligned_addr \in DOMAIN live
        map_ok == read_ok /\ engine_ok /\ ~MemMapOverlaps(aligned_addr, page_size)
    IN  /\ faultIn' = [address |-> address, mappedBefore |-> mapped,
                        readLive |-> ReadsLive(address),
                        engineOk |-> (read_ok => engine_ok),
                        result |-> HookUnmappedResult(read_ok, map_ok)]
        /\ IF map_ok
           THEN /\ mapped' = mapped \cup PagesOf(aligned_addr, page_size)
                /\ mapCount' = Counted(PagesOf(aligned_addr, page_size))
                /\ snap' = (aligned_addr :> live[aligned_addr]) @@ snap
           ELSE UNCHANGED <<mapped, mapCount, snap>>
        /\ IF WritesPage(read_ok, map_ok)
           THEN uc_mem' = (aligned_addr :> live[aligned_addr]) @@ uc_mem
           ELSE uc_mem' = uc_mem
        /\ emu' = IF HookUnmappedResult(read_ok, map_ok) THEN emu ELSE "error"
        /\ hookIn' = NoHook
        /\ UNCHANGED <<threads, request, live, phase, retval, exc, stop_on_ret_addr, hooks,
                       regs, nblocks, failedAt, firstExport>>

\* The engine cannot fetch the next block: UC_HOOK_MEM_UNMAPPED for reg_pc
FetchFault ==
    /\ phase = "running" /\ emu = "fetch"
    /\ "UC_HOOK_MEM_UNMAPPED" \in hooks
    /\ ~IsMapped(reg_pc)
    /\ \E engine_ok \in BOOLEAN : HookUnmapped(reg_pc, engine_ok)

\* Addresses the wrapper's loads and stores name
DataAddrs == {0} \cup OutOfRange \cup {4198700}

\* A load or store of the wrapper calls the fault callback.  The engine calls it
\* for unmapped addresses; a caller of the callback may name any address.
DataFault ==
    /\ phase = "running" /\ emu = "exec"
    /\ "UC_HOOK_MEM_UNMAPPED" \in hooks
    /\ \E address \in DataAddrs, engine_ok \in BOOLEAN : HookUnmapped(address, engine_ok)

\* --------------------------------------------------- _unicorn_hook_block
\* Faulty variants of the stop condition: without the "+ 1" tolerance, the naive "stop
\* at the first export reached", and without the sentinel
IsStopCondition_NoPlusOne(ret_addr, stop) ==
    ret_addr = stop \/ ret_addr = STACK_MAGIC_RET_ADDR
IsStopCondition_FirstExport(ret_addr, stop) == TRUE
IsStopCondition_NoSentinel(ret_addr, stop) ==
    ret_addr = stop \/ ret_addr = stop + 1
IsStopCondition_OnlySentinel(ret_addr, stop) ==
    ret_addr = STACK_MAGIC_RET_ADDR

\* lines 184-186
IsStopCondition(ret_addr, stop) ==
    \/ ret_addr = stop
    \/ ret_addr = stop + 1
    \/ ret_addr = STACK_MAGIC_RET_ADDR

\* Faulty variant: a no-return list that lacks ExitProcess
_is_no_return_api_Short(api_name) == api_name \in {"FatalExit", "ExitThread"}

\* lines 221-223
_is_no_return_api(api_name) == api_name \in NO_RETURN_APIS

\* lines 226-228
_is_bogus_api(api_name) == api_name \in BOGUS_APIS

\* lines 231-235
_simulate_bogus_api(api_name) == BOGUS_API_MAP[api_name]

Max(a, b) == IF a >= b THEN a ELSE b

\* Faulty variant: the 64-bit profile pops every argument, as the 32-bit one does
BogusStackFix_AllOnStack(a, sp, ptr_size, arg_count) ==
    sp + ptr_size * (1 + arg_count)

\* lines 206-214: the stack pointer after popping the return address and the
\* arguments the call passed on the stack
BogusStackFix(a, sp, ptr_size, arg_count) ==
    IF a = X86_32
    THEN sp + ptr_size * (1 + arg_count)
    ELSE sp + ptr_size * (1 + Max(0, arg_count - 4))

\* Faulty variant: the resume address is read after the stack fix-up
BypassTarget_AfterFix(ret_addr, new_sp) == MemRead(new_sp)

\* line 217: the program counter the bypass sets is the return address read at
\* line 179, before the stack pointer was moved
BypassTarget(ret_addr, new_sp) == ret_addr

\* Faulty variants: the bogus table consulted before the stop condition, and a stop
\* at every export not named in a table
HookBranch_BogusFirst(ret_addr, stop, api_name) ==
    IF _is_bogus_api(api_name) THEN "bogus"
    ELSE IF IsStopCondition(ret_addr, stop) THEN "resolved"
    ELSE IF _is_no_return_api(api_name) THEN "no_return"
    ELSE "none"
HookBranch_UnknownResolved(ret_addr, stop, api_name) ==
    IF IsStopCondition(ret_addr, stop) THEN "resolved"
    ELSE IF _is_no_return_api(api_name) THEN "no_return"
    ELSE IF _is_bogus_api(api_name) THEN "bogus"
    ELSE "resolved"

\* lines 184-218: the if / elif chain of the hook at an export
HookBranch(ret_addr, stop, api_name) ==
    IF IsStopCondition(ret_addr, stop) THEN "resolved"
    ELSE IF _is_no_return_api(api_name) THEN "no_return"
    ELSE IF _is_bogus_api(api_name) THEN "bogus"
    ELSE "none"

\* lines 158-218, the whole callback, invoked by the engine before the block at
\* reg_pc runs.  An exception of the callback (uc.mem_read of an unmapped stack)
\* stops the run and is raised again by emu_start.
_unicorn_hook_block ==
    /\ phase = "running" /\ emu = "fetch"
    /\ "UC_HOOK_BLOCK" \in hooks
    /\ reg_pc # Until
    /\ IsMapped(reg_pc)
    /\ nblocks' = IF nblocks < MaxBlocks THEN nblocks + 1 ELSE nblocks
    /\ LET address == reg_pc
           ptr_size == pointer_size
           sp == reg_sp
       IN  IF address \notin DOMAIN exports_dict
           THEN /\ emu' = "exec"
                /\ hookIn' = [address |-> address, sp |-> sp, ret |-> None,
                               branch |-> "absent"]
                /\ UNCHANGED <<regs, firstExport>>
           ELSE IF ~CanAccess(sp, ptr_size)
           THEN /\ emu' = "error"
                /\ hookIn' = [address |-> address, sp |-> sp, ret |-> Unmapped,
                               branch |-> "raised"]
                /\ firstExport' = IF firstExport = NoExport
                                  THEN [address |-> address, ret |-> Unmapped]
                                  ELSE firstExport
                /\ UNCHANGED regs
           ELSE LET ret_addr == MemRead(sp)
                    api_name == exports_dict[address]
                    branch == HookBranch(ret_addr, stop_on_ret_addr, api_name)
                IN  /\ hookIn' = [address |-> address, sp |-> sp, ret |-> ret_addr,
                                   branch |-> branch]
                    /\ firstExport' = IF firstExport = NoExport
                                      THEN [address |-> address, ret |-> ret_addr]
                                      ELSE firstExport
                    /\ CASE branch = "resolved" ->
                                /\ reg_result' = address
                                /\ emu' = "stopped"
                                /\ UNCHANGED <<reg_pc, reg_sp, reg_bp, seg_base>>
                         [] branch = "no_return" ->
                                /\ reg_result' = address
                                /\ emu' = "stopped"
                                /\ UNCHANGED <<reg_pc, reg_sp, reg_bp, seg_base>>
                         [] branch = "bogus" ->
                                /\ reg_result' = _simulate_bogus_api(api_name)[1]
                                /\ reg_sp' = RegValue(BogusStackFix(arch, sp, ptr_size,
                                                    _simulate_bogus_api(api_name)[2]))
                                /\ reg_pc' = RegValue(BypassTarget(ret_addr,
                                                    BogusStackFix(arch, sp, ptr_size,
                                                        _simulate_bogus_api(api_name)[2])))
                                /\ emu' = "fetch"
                                /\ UNCHANGED <<reg_bp, seg_base>>
                         [] OTHER ->
                                /\ emu' = "exec"
                                /\ UNCHANGED regs
    /\ faultIn' = NoFault
    /\ UNCHANGED <<threads, request, live, phase, retval, exc, stop_on_ret_addr, hooks,
                   memory, failedAt>>

\* ------------------------------------------------ the engine and the wrapper
\* Values the wrapper leaves on the stack as a return address
StackValues == {STACK_MAGIC_RET_ADDR, STACK_MAGIC_RET_ADDR + 1} \cup CallSiteRet
               \cup {r + 1 : r \in CallSiteRet}
\* Where the wrapper's code can point the stack pointer
StackPointers == {stack_start - pointer_size, stack_start} \cup OutOfRange
\* Where the wrapper's block can jump
JumpTargets == WrapperStub \cup ExportAddrs \cup {Until}

\* The instructions of one block of the wrapper: they move the stack pointer,
\* may store a return address at the top of the stack, and end with a jump.
ExecBlock ==
    /\ phase = "running" /\ emu = "exec"
    /\ \E sp \in StackPointers,
          store \in {None} \cup StackValues,
          target \in JumpTargets :
        /\ reg_sp' = RegValue(sp)
        /\ IF store # None /\ CanAccess(sp, pointer_size)
           THEN uc_mem' = (sp :> store) @@ uc_mem
           ELSE uc_mem' = uc_mem
        /\ reg_result' = reg_result
        /\ reg_pc' = RegValue(target)
    /\ emu' = "fetch"
    /\ hookIn' = NoHook /\ faultIn' = NoFault
    /\ UNCHANGED <<threads, request, live, phase, retval, exc, stop_on_ret_addr, hooks,
                   reg_bp, seg_base, mapped, mapCount, snap, nblocks,
                   failedAt, firstExport>>

\* The program counter has reached the bound given to emu_start: the run ends
\* without any hook having stopped it
BoundReached ==
    /\ phase = "running" /\ emu = "fetch"
    /\ reg_pc = Until
    /\ emu' = "done"
    /\ hookIn' = NoHook /\ faultIn' = NoFault
    /\ UNCHANGED <<threads, request, live, phase, retval, exc, stop_on_ret_addr, hooks,
                   regs, memory, nblocks, failedAt, firstExport>>

\* Phases of resolve_wrapped_api inside the try block, before emulation starts
BuildPhases == {"map_magic", "setup_stack", "setup_teb", "add_hooks", "emu_start"}

\* A call of the engine raises UcError: while the context is built (mem_map,
\* mem_write, reg_write, hook_add), or while the wrapper runs (an invalid
\* instruction, a protection fault)
EngineError ==
    /\ \/ phase \in BuildPhases /\ emu = "idle"
       \/ phase = "running" /\ emu = "exec"
    /\ emu' = "error"
    /\ failedAt' = phase
    /\ hookIn' = NoHook /\ faultIn' = NoFault
    /\ UNCHANGED <<threads, request, live, phase, retval, exc, stop_on_ret_addr, hooks,
                   regs, memory, nblocks, firstExport>>

\* The register lines 82-85 return after emu_start has returned
ReturnedRegister == reg_result

\* lines 81-85: emu_start returned; read the result register and return it
ReturnResult ==
    /\ phase = "running" /\ emu \in {"stopped", "done"}
    /\ phase' = "returned"
    /\ retval' = ReturnedRegister
    /\ UNCHANGED <<threads, request, live, exc, stop_on_ret_addr, hooks, regs, memory, emu,
                   history>>

\* lines 86-97: except UcError: log pc, sp, bp and return None
ExceptUcError ==
    /\ phase \in BuildPhases \cup {"running"} /\ emu = "error"
    /\ phase' = "returned"
    /\ retval' = None
    /\ UNCHANGED <<threads, request, live, exc, stop_on_ret_addr, hooks, regs, memory, emu,
                   history>>

\* The live process changes the bytes of one of its pages
LiveWrite ==
    /\ phase = "running" /\ emu \in {"fetch", "exec"}
    /\ \E p \in LiveWritable, b \in Blob :
        /\ b # live[p]
        /\ live' = [live EXCEPT ![p] = b]
    /\ UNCHANGED <<threads, request, phase, retval, exc, stop_on_ret_addr, hooks, regs,
                   memory, emu, history>>

\* ------------------------------------------------------------ the claims
\* The configured expected return address R: the caller's, or the sentinel
ExpectedR == IF expected_ret_addr = None THEN STACK_MAGIC_RET_ADDR ELSE expected_ret_addr
\* The stack values the spec names as stop conditions: R, R+1, the sentinel
StopValues == {ExpectedR, ExpectedR + 1, STACK_MAGIC_RET_ADDR}
\* The last block-hook call was for an export and read a return address
HookedAtExport == hookIn.address \in ExportAddrs /\ hookIn.ret \notin {None, Unmapped}
\* The first export a block started at, with the return address found there
FirstExportRead == firstExport.address \in ExportAddrs /\ firstExport.ret \notin {None, Unmapped}

Next ==
    \/ SelectArch
    \/ UcNew
    \/ MapMagicPage
    \/ SetupStack
    \/ SetupTeb
    \/ AddHooks
    \/ EmuStart
    \/ FetchFault
    \/ DataFault
    \/ _unicorn_hook_block
    \/ ExecBlock
    \/ BoundReached
    \/ EngineError
    \/ ReturnResult
    \/ ExceptUcError
    \/ LiveWrite

Spec == Init /\ [][Next]_vars

\* ------------------------------------------- two calls on two threads
\* What belongs to one call of resolve_wrapped_api: its arguments and locals
\* (lines 20-23, 67-70), the Uc object it constructs at line 46 with its
\* registers, memory and hooks, and the record of the callbacks the engine made
\* for that object.  The hooks reach all of it through their uc and user_data
\* parameters (lines 72-77, 128-131, 158-161).
CallState ==
    [wrapper_start_addr |-> wrapper_start_addr, expected_ret_addr |-> expected_ret_addr,
     phase |-> phase, retval |-> retval, exc |-> exc,
     stop_on_ret_addr |-> stop_on_ret_addr, hooks |-> hooks,
     reg_pc |-> reg_pc, reg_sp |-> reg_sp, reg_bp |-> reg_bp,
     reg_result |-> reg_result, seg_base |-> seg_base,
     mapped |-> mapped, uc_mem |-> uc_mem, emu |-> emu,
     nblocks |-> nblocks, failedAt |-> failedAt, hookIn |-> hookIn,
     faultIn |-> faultIn, firstExport |-> firstExport,
     mapCount |-> mapCount, snap |-> snap]

\* A call at its entry, not yet run
InitialCall(start, expected) ==
    [wrapper_start_addr |-> start, expected_ret_addr |-> expected,
     phase |-> "select_arch", retval |-> None, exc |-> Nothing,
     stop_on_ret_addr |-> None, hooks |-> {},
     reg_pc |-> 0, reg_sp |-> 0, reg_bp |-> 0,
     reg_result |-> 0, seg_base |-> <<Nothing, 0>>,
     mapped |-> {}, uc_mem |-> <<>>, emu |-> "idle",
     nblocks |-> 0, failedAt |-> Nothing, hookIn |-> NoHook,
     faultIn |-> NoFault, firstExport |-> NoExport,
     mapCount |-> <<>>, snap |-> <<>>]

\* Faulty variant: the stop address kept in a module global that the hook reads
Resume_GlobalStop(saved) == [saved EXCEPT !.stop_on_ret_addr = stop_on_ret_addr]

\* lines 46, 67-77: what a call finds when its thread runs again is what it
\* left: uc is a local of the call, and stop_on_ret_addr travels in the
\* user_data of the hooks added to that uc
Resume(saved) == saved

\* A call is between two callbacks of its running emulation
InEmulation(c) == c.phase = "running" /\ c.emu \in {"fetch", "exec"}

\* The scheduler suspends the running call and resumes the other one
Switch ==
    /\ other.phase \notin {Nothing, "returned", "raised"}
    /\ cur' = 3 - cur
    /\ other' = CallState
    /\ mixed' = (mixed \/ (InEmulation(CallState) /\ InEmulation(other)))
    /\ LET r == Resume(other)
       IN  /\ wrapper_start_addr' = r.wrapper_start_addr
           /\ expected_ret_addr' = r.expected_ret_addr
           /\ phase' = r.phase /\ retval' = r.retval /\ exc' = r.exc
           /\ stop_on_ret_addr' = r.stop_on_ret_addr /\ hooks' = r.hooks
           /\ reg_pc' = r.reg_pc /\ reg_sp' = r.reg_sp /\ reg_bp' = r.reg_bp
           /\ reg_result' = r.reg_result /\ seg_base' = r.seg_base
           /\ mapped' = r.mapped /\ uc_mem' = r.uc_mem /\ emu' = r.emu
           /\ nblocks' = r.nblocks /\ failedAt' = r.failedAt
           /\ hookIn' = r.hookIn /\ faultIn' = r.faultIn
           /\ firstExport' = r.firstExport
           /\ mapCount' = r.mapCount /\ snap' = r.snap
    /\ UNCHANGED <<arch, page_size, live>>

\* The export of a given name
ExportOf(name) == CHOOSE a \in ExportAddrs : exports_dict[a] = name

\* The wrapper both calls emulate, block by block: the stub pushes the return
\* address of its call site and calls Sleep; the block at the call's return
\* address resets the stack pointer and jumps to CreateFileA
WrapperCode(pc) ==
    IF pc \in WrapperStub
    THEN [sp |-> stack_start - pointer_size, store |-> 4198405,
          target |-> ExportOf("Sleep")]
    ELSE [sp |-> stack_start, store |-> None, target |-> ExportOf("CreateFileA")]

\* The engine runs one block of that wrapper
WrapperBlock ==
    /\ ExecBlock
    /\ reg_sp' = WrapperCode(reg_pc).sp
    /\ reg_pc' = WrapperCode(reg_pc).target
    /\ uc_mem' = IF WrapperCode(reg_pc).store # None
                 THEN (WrapperCode(reg_pc).sp :> WrapperCode(reg_pc).store) @@ uc_mem
                 ELSE uc_mem

TwoInit ==
    /\ InitCall
    /\ cur = 1 /\ mixed = FALSE
    /\ other \in {InitialCall(start, expected) :
                    start \in WrapperStub \cup ExportAddrs,
                    expected \in {None} \cup CallSiteRet}

TwoNext ==
    \/ SelectArch
    \/ UcNew
    \/ MapMagicPage
    \/ SetupStack
    \/ SetupTeb
    \/ AddHooks
    \/ EmuStart
    \/ FetchFault
    \/ _unicorn_hook_block
    \/ WrapperBlock
    \/ ReturnResult
    \/ ExceptUcError
    \/ Switch

TwoSpec == TwoInit /\ [][TwoNext]_vars

\* ----------------------------------------------------------------- C1
\* C1: whenever the block hook is invoked at an export A while the pointer at
\* the stack pointer is R, R+1 or the sentinel, the hook has written A into the
\* result register and stopped emulation, and resolve_wrapped_api returns A.
C1_StopsAndReturnsExport ==
    (HookedAtExport /\ hookIn.ret \in StopValues)
        => /\ emu = "stopped"
           /\ reg_result = hookIn.address
           /\ phase \in {"running", "returned"}
           /\ phase = "returned" => retval = hookIn.address

\* The R+1 case with an explicit R, returned to the caller
C1_Witness ==
    /\ phase = "returned" /\ expected_ret_addr # None
    /\ HookedAtExport /\ hookIn.ret = expected_ret_addr + 1
    /\ retval = hookIn.address

\* ----------------------------------------------------------------- C2
\* C2 as stated: at an export, a stack value that is none of R, R+1 and the
\* sentinel never stops emulation, for any export.
C2_AnyOtherValueContinues ==
    (HookedAtExport /\ hookIn.ret \notin StopValues)
        => (phase = "running" /\ emu \in {"exec", "fetch"})

\* C2 amended: at an export that is not named in the no-return set, a stack value
\* that is none of R, R+1 and the sentinel does not stop emulation: the run is
\* still in progress after the hook returns.
C2_OtherValueContinuesUnlessNoReturn ==
    (/\ HookedAtExport /\ hookIn.ret \notin StopValues
     /\ exports_dict[hookIn.address] \notin NO_RETURN_APIS)
        => (phase = "running" /\ emu \in {"exec", "fetch"})

\* A genuine export reached with a return address that is no stop condition
C2_Witness ==
    /\ HookedAtExport /\ hookIn.ret \notin StopValues /\ hookIn.ret # 0
    /\ exports_dict[hookIn.address] = "CreateFileA"
    /\ phase = "running" /\ emu = "exec"

\* ----------------------------------------------------------------- C3
\* C3: when the first export a block starts at is named in the no-return set,
\* emulation stops there and resolve_wrapped_api returns that export's address,
\* whatever expected_ret_addr is and whatever return address the stack holds.
C3_NoReturnFirstResolves ==
    (FirstExportRead /\ exports_dict[firstExport.address] \in NO_RETURN_APIS)
        => /\ emu = "stopped"
           /\ reg_result = firstExport.address
           /\ phase = "returned" => retval = firstExport.address

\* ExitProcess reached first, with a return address that is no stop condition,
\* under an explicit expected_ret_addr
C3_Witness ==
    /\ phase = "returned" /\ expected_ret_addr # None
    /\ FirstExportRead /\ exports_dict[firstExport.address] = "ExitProcess"
    /\ firstExport.ret \notin StopValues
    /\ retval = firstExport.address

\* ----------------------------------------------------------------- C4
\* A run that first reached a bogus export with a return address that is no stop
\* condition, and whose last hook call is at a genuine export while the top of
\* the stack holds the expected return address
C4_BogusThenGenuine ==
    /\ FirstExportRead /\ exports_dict[firstExport.address] \in BOGUS_APIS
    /\ firstExport.ret \notin StopValues
    /\ HookedAtExport /\ hookIn.address # firstExport.address
    /\ exports_dict[hookIn.address] \notin BOGUS_APIS \cup NO_RETURN_APIS
    /\ hookIn.ret = ExpectedR

\* C4: such a run stops at the genuine export G and resolve_wrapped_api returns
\* G's address: not the bogus export's address, not the simulated return value.
C4_ResolvesGenuineAfterBogus ==
    C4_BogusThenGenuine
        => /\ emu = "stopped"
           /\ reg_result = hookIn.address
           /\ phase = "returned"
                => /\ retval = hookIn.address
                   /\ retval # firstExport.address
                   /\ retval # BOGUS_API_MAP[exports_dict[firstExport.address]][1]

C4_Witness ==
    /\ C4_BogusThenGenuine /\ phase = "returned"
    /\ retval = hookIn.address /\ expected_ret_addr # None

\* ----------------------------------------------------------------- C5
\* The last hook call took the bogus-call bypass path
C5_Bypassed ==
    /\ HookedAtExport /\ hookIn.ret \notin StopValues
    /\ exports_dict[hookIn.address] \in BOGUS_APIS
    /\ exports_dict[hookIn.address] \notin NO_RETURN_APIS

\* C5: on the bypass path the stack pointer advances by pointer_size * (1 + n) on
\* the 32-bit profile and by pointer_size * (1 + max(0, n - 4)) on the 64-bit
\* profile, n the table's argument count; for Sleep (n = 1) that is 2 pointer
\* widths on 32-bit and 1 pointer width on 64-bit.
C5_BypassStackAdvance ==
    C5_Bypassed
        => LET n == BOGUS_API_MAP[exports_dict[hookIn.address]][2]
               onStack == IF n - 4 > 0 THEN n - 4 ELSE 0
           IN  /\ arch = X86_32 => reg_sp = hookIn.sp + pointer_size * (1 + n)
               /\ arch = X86_64 => reg_sp = hookIn.sp + pointer_size * (1 + onStack)
               /\ exports_dict[hookIn.address] = "Sleep"
                    => /\ arch = X86_32 => reg_sp = hookIn.sp + 2 * 4
                       /\ arch = X86_64 => reg_sp = hookIn.sp + 1 * 8

\* A bypass on the 64-bit profile
C5_Witness ==
    /\ C5_Bypassed /\ arch = X86_64 /\ reg_sp = hookIn.sp + 8
    /\ reg_pc = hookIn.ret

\* ----------------------------------------------------------------- C6
\* C6 as stated: every value other than None that resolve_wrapped_api returns is
\* the address of an export, the one at which the block hook stopped emulation,
\* however the run ended.
C6_ReturnsOnlyStoppedExport ==
    (phase = "returned" /\ retval # None)
        => /\ retval \in ExportAddrs
           /\ emu = "stopped"
           /\ hookIn.address = retval

\* ----------------------------------------------------------------- C7
\* C7 as stated: an engine failure while the context is built reaches the caller
\* as an error, never as the Unresolved result.
C7_BuildFailureRaises ==
    (failedAt \in BuildPhases \ {"emu_start"} /\ phase \in {"returned", "raised"})
        => (phase = "raised" /\ exc = "UcError")

\* ----------------------------------------------------------------- C8
\* The last fault-hook call was for a non-null address of an unmapped page that
\* the process controller cannot read
C8_UnreadableFault ==
    /\ faultIn.address \notin {None, 0}
    /\ (faultIn.address - (faultIn.address % page_size)) \notin faultIn.mappedBefore
    /\ (faultIn.address - (faultIn.address % page_size)) \notin DOMAIN live

\* C8: such a fault is reported unresolved without mapping anything, the engine
\* aborts the run, and resolve_wrapped_api returns None: no exception reaches
\* the caller, and the call can always complete.
C8_UnreadableFaultUnresolved ==
    C8_UnreadableFault
        => /\ mapped = faultIn.mappedBefore
           /\ emu = "error"
           /\ exc = Nothing
           /\ phase \in {"running", "returned"}
           /\ phase = "running" => ENABLED ExceptUcError
           /\ phase = "returned" => retval = None

C8_Witness ==
    /\ C8_UnreadableFault /\ faultIn.address \in OutOfRange
    /\ phase = "returned" /\ retval = None

\* ----------------------------------------------------------------- C9
\* C9: within one session every page is mapped at most once, and a page mirrored
\* by the fault hook holds the bytes the live process held when it was mapped,
\* whatever fault-hook calls follow: a call for an address of a mapped page
\* neither maps it again nor overwrites it.
C9_DemandPagingIdempotent ==
    /\ \A p \in DOMAIN mapCount : mapCount[p] <= 1
    /\ DOMAIN mapCount = mapped
    /\ \A p \in DOMAIN snap : p \in mapped /\ MemRead(p) = snap[p]

\* A second fault-hook call for a page mirrored earlier, after the live process
\* has changed that page
C9_Witness ==
    /\ faultIn.address # None
    /\ AlignedAddr(faultIn.address) \in faultIn.mappedBefore
    /\ AlignedAddr(faultIn.address) \in DOMAIN snap
    /\ live[AlignedAddr(faultIn.address)] # snap[AlignedAddr(faultIn.address)]
    /\ uc_mem[AlignedAddr(faultIn.address)] = snap[AlignedAddr(faultIn.address)]

\* ----------------------------------------------------------------- C10
\* C10: when the wrapper start address is itself an export, then for every
\* expected_ret_addr: emulation starts with both hooks installed and the sentinel
\* at the stack pointer, no instruction of the wrapper runs before the block hook
\* has seen the first block, and once the engine has delivered that block the call
\* returns the start address; it returns nothing else unless the engine failed
\* before delivering it.
C10_DirectPassthrough ==
    wrapper_start_addr \in ExportAddrs
        => /\ (phase = "running" /\ nblocks = 0)
                => /\ hooks = {"UC_HOOK_MEM_UNMAPPED", "UC_HOOK_BLOCK"}
                   /\ reg_pc = wrapper_start_addr
                   /\ MemRead(reg_sp) = STACK_MAGIC_RET_ADDR
                   /\ emu \in {"fetch", "error"}
           /\ (phase = "running" /\ nblocks > 0)
                => (emu = "stopped" /\ reg_result = wrapper_start_addr)
           /\ phase = "returned"
                => \/ retval = wrapper_start_addr
                   \/ retval = None /\ emu = "error" /\ nblocks = 0

\* The start address is the bogus export, an explicit expected_ret_addr was
\* given, and the call returned the start address
C10_Witness ==
    /\ wrapper_start_addr \in ExportAddrs
    /\ exports_dict[wrapper_start_addr] = "Sleep"
    /\ expected_ret_addr # None
    /\ phase = "returned" /\ retval = wrapper_start_addr

\* ----------------------------------------------------------------- C11
\* C11: when the process controller reports an architecture other than x86-32
\* and x86-64, resolve_wrapped_api raises the unsupported-architecture error
\* (NotImplementedError) as its first step: no emulator has been constructed, no
\* memory mapped, no hook installed and no register written; the call never
\* continues with a profile and never returns a value.
C11_UnsupportedArchRaises ==
    arch \notin {X86_32, X86_64}
        => /\ phase \in {"select_arch", "raised"}
           /\ phase = "select_arch" => ENABLED SelectArch
           /\ phase = "raised" => exc = "NotImplementedError"
           /\ mapped = {} /\ uc_mem = <<>> /\ hooks = {}
           /\ regs = <<0, 0, 0, 0, <<Nothing, 0>>>>
           /\ emu = "idle" /\ retval = None

\* The call has raised for the unsupported architecture
C11_Witness ==
    /\ arch = OtherArch /\ phase = "raised" /\ exc = "NotImplementedError"
    /\ mapped = {} /\ hooks = {}

\* ----------------------------------------------------------------- C12
\* The steps the program and the engine take whenever they can: each statement
\* of resolve_wrapped_api, and the engine's own loop (fetch a block, call the
\* hook, run the block, end the run at the bound).  Engine errors, the accesses
\* the wrapper makes and the writes of the live process are left to choice.
Fairness ==
    /\ WF_vars(SelectArch) /\ WF_vars(UcNew) /\ WF_vars(MapMagicPage)
    /\ WF_vars(SetupStack) /\ WF_vars(SetupTeb) /\ WF_vars(AddHooks)
    /\ WF_vars(EmuStart) /\ WF_vars(FetchFault) /\ WF_vars(_unicorn_hook_block)
    /\ WF_vars(ExecBlock) /\ WF_vars(BoundReached)
    /\ WF_vars(ReturnResult) /\ WF_vars(ExceptUcError)

LiveSpec == Spec /\ Fairness

\* C12 as stated: every call of resolve_wrapped_api ends, returning a value or
\* raising, whatever the wrapper does.
C12_EveryCallTerminates == <>(phase \in {"returned", "raised"})

\* ----------------------------------------------------------------- C13
\* C13: the block hook tests resolved-call, then no-return, then bogus bypass.
\* At an export named in the bogus table or in the no-return set, reached while
\* the top of the stack holds R, R+1 or the sentinel, the resolved-call branch is
\* the one taken: the export's address is in the result register, emulation is
\* stopped, and stack pointer and program counter are as the hook found them.
\* The no-return branch is taken only when the stack value is no stop condition,
\* the bypass only when moreover the name is not in the no-return set.
C13_BranchOrder ==
    /\ (/\ HookedAtExport /\ hookIn.ret \in StopValues
        /\ exports_dict[hookIn.address] \in BOGUS_APIS \cup NO_RETURN_APIS)
            => /\ hookIn.branch = "resolved"
               /\ emu = "stopped"
               /\ reg_result = hookIn.address
               /\ reg_sp = hookIn.sp /\ reg_pc = hookIn.address
    /\ hookIn.branch = "no_return"
            => /\ hookIn.ret \notin StopValues
               /\ exports_dict[hookIn.address] \in NO_RETURN_APIS
    /\ hookIn.branch = "bogus"
            => /\ hookIn.ret \notin StopValues
               /\ exports_dict[hookIn.address] \notin NO_RETURN_APIS
               /\ exports_dict[hookIn.address] \in BOGUS_APIS

\* Sleep reached with R + 1 on the stack: resolved, not bypassed
C13_Witness ==
    /\ HookedAtExport /\ exports_dict[hookIn.address] = "Sleep"
    /\ expected_ret_addr # None /\ hookIn.ret = expected_ret_addr + 1
    /\ hookIn.branch = "resolved" /\ emu = "stopped"
    /\ reg_result = hookIn.address /\ reg_sp = hookIn.sp

\* ----------------------------------------------------------------- C14
\* C14: a block-hook call that takes the bogus-call bypass writes the table's
\* return value into the result register, sets the program counter to the value
\* that was at the top of the stack when the hook was entered, moves the stack
\* pointer up by whole pointers, and leaves emulation running; emulator memory,
\* the mapped pages, the frame pointer, the segment base, the installed hooks,
\* the stop address and the live process are unchanged.
C14_BypassFrame ==
    [][(_unicorn_hook_block /\ hookIn'.branch = "bogus")
        => /\ reg_result' = BOGUS_API_MAP[exports_dict[reg_pc]][1]
           /\ reg_pc' = MemRead(reg_sp)
           /\ reg_sp' > reg_sp /\ (reg_sp' - reg_sp) % pointer_size = 0
           /\ phase' = "running" /\ emu' = "fetch"
           /\ UNCHANGED <<uc_mem, mapped, mapCount, snap, reg_bp, seg_base, hooks,
                          stop_on_ret_addr, live, request, retval, exc>>]_vars

\* A bypass whose return address was stored by the wrapper below the initial
\* top of the stack
C14_Witness ==
    /\ hookIn.branch = "bogus" /\ hookIn.sp = stack_start - pointer_size
    /\ hookIn.ret \in CallSiteRet
    /\ reg_pc = hookIn.ret /\ reg_result = 0 /\ reg_bp = stack_start
    /\ phase = "running" /\ emu = "fetch"

\* ----------------------------------------------------------------- C15
\* The block about to run is no export, or it is an export outside both tables
\* whose return address, read from the top of the stack, is no stop condition
C15_NoActionCase ==
    \/ reg_pc \notin ExportAddrs
    \/ /\ reg_pc \in ExportAddrs
       /\ CanAccess(reg_sp, pointer_size)
       /\ MemRead(reg_sp) \notin StopValues
       /\ exports_dict[reg_pc] \notin NO_RETURN_APIS \cup BOGUS_APIS

\* C15: in both cases the block hook takes no action: every register, the
\* program counter, the stack and all emulator memory are as before the call,
\* nothing is mapped, and the emulation goes on to run the block.
C15_NoActionFrame ==
    [][(_unicorn_hook_block /\ C15_NoActionCase)
        => /\ UNCHANGED <<reg_pc, reg_sp, reg_bp, reg_result, seg_base>>
           /\ UNCHANGED <<uc_mem, mapped, mapCount, snap, hooks, stop_on_ret_addr,
                          live, request, retval, exc>>
           /\ phase' = "running" /\ emu' = "exec"]_vars

\* The hook has just returned from an export outside both tables, with a return
\* address the wrapper stored that is no stop condition
C15_Witness ==
    /\ hookIn.branch = "none" /\ hookIn.ret \in StackValues \ StopValues
    /\ exports_dict[hookIn.address] \notin NO_RETURN_APIS \cup BOGUS_APIS
    /\ reg_pc = hookIn.address /\ reg_sp = hookIn.sp /\ reg_result = 0
    /\ phase = "running" /\ emu = "exec"

\* ----------------------------------------------------------------- C16
\* The base of the page that holds the address of the fault-hook call that has
\* just returned: address - (address mod pageSize)
C16_PageBase == faultIn.address - (faultIn.address % page_size)

\* A step of the fault hook (the only steps that record a call) for a non-null
\* address of an unmapped page that the process controller can read
C16_ReadableFault ==
    /\ faultIn' # faultIn /\ faultIn'.address \notin {None, 0}
    /\ C16_PageBase' \notin mapped
    /\ C16_PageBase' \in DOMAIN live

\* What the claim says such a step does: the page at address - (address mod
\* pageSize) is mapped and holds the live process's bytes of that page, the
\* hook returns true and the run goes on, and the faulting address is mapped.
C16_PageMirrored ==
    /\ faultIn'.result = TRUE
    /\ mapped' = mapped \cup {C16_PageBase'}
    /\ C16_PageBase' \in DOMAIN uc_mem' /\ uc_mem'[C16_PageBase'] = live[C16_PageBase']
    /\ \E b \in mapped' : b <= faultIn'.address /\ faultIn'.address < b + page_size
    /\ emu' = emu

\* C16 as stated: for every non-null faulting address and page size, when the
\* process read succeeds the handler maps the page, fills it and returns true.
C16_ReadableFaultMapsPage ==
    [][C16_ReadableFault => C16_PageMirrored]_vars

\* C16 amended: for every non-null faulting address and page size, when the
\* process read succeeds and the engine's mem_map and mem_write do not fail, the
\* handler maps the page starting at address - (address mod pageSize), with the
\* live process's bytes of that page, and returns true; the faulting address is
\* then mapped.
C16_ReadableFaultMapsPageUnlessEngineFails ==
    [][(C16_ReadableFault /\ faultIn'.engineOk) => C16_PageMirrored]_vars

\* A data access into the second 256-byte page of the stub's section: the page
\* base differs from the base of the page the stub starts in
C16_Witness ==
    /\ page_size = 256 /\ faultIn.address = 4198700 /\ faultIn.result
    /\ C16_PageBase = 4198656
    /\ C16_PageBase \notin faultIn.mappedBefore /\ C16_PageBase \in mapped
    /\ uc_mem[C16_PageBase] = live[C16_PageBase]
    /\ phase = "running" /\ emu = "exec"

\* ----------------------------------------------------------------- C17
\* C17: a fault-hook call for the null address returns false without calling
\* read_process_memory and without mapping anything; the engine then aborts the
\* run and resolve_wrapped_api returns None (Unresolved), raising nothing.
C17_NullFaultUnresolved ==
    faultIn.address = 0
        => /\ ~faultIn.readLive
           /\ ~faultIn.result
           /\ mapped = faultIn.mappedBefore
           /\ emu = "error" /\ exc = Nothing
           /\ phase \in {"running", "returned"}
           /\ phase = "running" => ENABLED ExceptUcError
           /\ phase = "returned" => retval = None

\* The call has returned None after the wrapper was sent to the null address:
\* a bypassed Sleep whose return address slot held zero
C17_Witness ==
    /\ faultIn.address = 0 /\ ~faultIn.readLive
    /\ firstExport.address \in ExportAddrs /\ firstExport.ret = 0
    /\ phase = "returned" /\ retval = None

\* ----------------------------------------------------------------- C18
\* C18: when emulation starts, and until the first block is delivered, on both
\* profiles: stack pointer and frame pointer are equal, at stack_addr + 2 *
\* page_size, inside the three mapped pages of the synthetic stack [stack_addr,
\* stack_addr + 3 * page_size); the pointer stored there is the sentinel; the
\* page that holds the sentinel address is mapped; both hooks are installed.
C18_StateAtEmulationStart ==
    (phase = "running" /\ nblocks = 0)
        => /\ arch \in {X86_32, X86_64}
           /\ reg_sp = reg_bp
           /\ reg_sp = stack_addr(arch) + 2 * page_size
           /\ stack_addr(arch) <= reg_sp /\ reg_sp < stack_addr(arch) + 3 * page_size
           /\ \A k \in 0 .. 2 : (stack_addr(arch) + k * page_size) \in mapped
           /\ \A a \in reg_sp .. (reg_sp + pointer_size - 1) : IsMapped(a)
           /\ reg_sp \in DOMAIN uc_mem /\ uc_mem[reg_sp] = STACK_MAGIC_RET_ADDR
           /\ IsMapped(STACK_MAGIC_RET_ADDR)
           /\ hooks = {"UC_HOOK_MEM_UNMAPPED", "UC_HOOK_BLOCK"}
           /\ reg_pc = wrapper_start_addr

\* The 64-bit profile, just started: no callback has run yet
C18_Witness ==
    /\ arch = X86_64 /\ phase = "running" /\ emu = "fetch" /\ nblocks = 0
    /\ hookIn = NoHook /\ faultIn = NoFault
    /\ reg_sp = stack_addr(X86_64) + 2 * page_size /\ reg_bp = reg_sp
    /\ uc_mem[reg_sp] = STACK_MAGIC_RET_ADDR

\* ----------------------------------------------------------------- C19
\* What a call returns when it runs alone, for the wrapper of TwoSpec: a start
\* address that is an export is returned as it is; from the stub, Sleep is the
\* answer when its return address is the expected one, else Sleep is bypassed
\* and CreateFileA is the answer; an engine error gives None.
C19_ResultAlone(c) ==
    IF c.emu = "error" THEN None
    ELSE IF c.wrapper_start_addr \in ExportAddrs THEN c.wrapper_start_addr
    ELSE IF c.expected_ret_addr = None THEN ExportOf("CreateFileA")
    ELSE ExportOf("Sleep")

\* C19: two calls whose steps and callbacks interleave in any way, each with its
\* own emulator, return what each returns when run alone (one after the other
\* is one of the interleavings), and a call whose emulation a hook stopped
\* returns the export its own hook reported: no register write, stack fix-up or
\* page mapping of the other call reaches it.
C19_InterleavedAsAlone ==
    \A c \in {CallState, other} :
        /\ c.phase = "returned" => c.retval = C19_ResultAlone(c)
        /\ (c.phase = "returned" /\ c.emu = "stopped")
                => (c.retval = c.hookIn.address /\ c.reg_result = c.retval)
        /\ DOMAIN c.mapCount = c.mapped
        /\ \A p \in DOMAIN c.mapCount : c.mapCount[p] = 1

\* Both calls ran the stub, their callbacks interleaved, and they returned
\* different exports: one Sleep, the other CreateFileA
C19_Witness ==
    /\ mixed
    /\ phase = "returned" /\ other.phase = "returned"
    /\ wrapper_start_addr \in WrapperStub /\ other.wrapper_start_addr \in WrapperStub
    /\ retval = ExportOf("Sleep") /\ other.retval = ExportOf("CreateFileA")
====
